---- MODULE Spec2Model ----
(***************************************************************************)
(* Phone-authentication quickstart: the three backends (Node, Go, Java)    *)
(* with their session registry, status poll proxy, device-binding cookie   *)
(* and completion endpoint.  One behaviour is one server process of one    *)
(* backend flavour serving requests; time is counted in minutes.           *)
(***************************************************************************)
EXTENDS Integers, Sequences, FiniteSets, TLC

\* ------------------------------------------------------------------ bounds
MaxSessions == 2        \* session keys the provider issues in one run
MaxTime == 6            \* the clock is observed for minutes 0..MaxTime
LastPrepare == 1        \* prepare requests arrive in minutes 0..LastPrepare
MaxPrepares == 2        \* preparePhoneRequest calls the client makes in one run
MaxInvokes == 2         \* invokeSecurePrompt calls the client makes in one run
MaxSweepTime == 8       \* the cleanup timer is followed for minutes 0..MaxSweepTime
MaxPhoneLen == 9        \* characters typed into the phone number field

\* ------------------------------------------------------- program constants
TTL_MINUTES == 5        \* registry TTL (5 * 60 * 1000 ms, 5 * time.Minute)
CLEANUP_INTERVAL == 1   \* minutes between sweeps (60 * 1000 ms, time.Minute)

Backends == {"node", "go", "java"}

\* The value a missing / null / undefined string or object has.
Null == "<null>"

SessionKeyNames == <<"s1", "s2", "s3", "s4">>
SessionKeys == {SessionKeyNames[i] : i \in 1..MaxSessions}

\* Status URLs a provider may hand out: the i-th prepare call gets
\* StatusUrlNames[i], or a string that cannot be turned into a request
\* because it is not a valid URI.
StatusUrlNames == <<"https://p/status/1", "https://p/status/2",
                    "https://p/status/3", "https://p/status/4">>
MalformedUrl == "not a url"
UrlWellFormed(u) == u # MalformedUrl

\* Raw binding secrets (feCode) as the SDK returns them: a fresh random one
\* for each prepare call, the i-th call getting FeCodeNames[i].
FeCodeNames == <<"AB12", "CD34", "EF56", "GH78">>
LowerNames == <<"ab12", "cd34", "ef56", "gh78">>
FeCodes == {FeCodeNames[i] : i \in 1..Len(FeCodeNames)}

\* String.toLowerCase on the secrets above.
toLowerCase(s) ==
    IF \E i \in 1..Len(FeCodeNames) : FeCodeNames[i] = s
    THEN LowerNames[CHOOSE i \in 1..Len(FeCodeNames) : FeCodeNames[i] = s]
    ELSE s

VARIABLES
    backend,     \* which backend this process is
    sdkReady,    \* Go: glideClient != nil; Java: GlideService.initialized
    now,         \* wall clock, minutes
    issuedKeys,  \* number of session keys the provider has issued so far
    store,       \* the session registry: session key -> [statusUrl, expiresAt]
    jar,         \* the cookies the browser holds: cookie name -> value
    last,        \* the request handled (or timer fired) last, with its answer
    ui,          \* App.jsx: the React state of the App component
    pending,     \* App.jsx: the async handlers suspended at an await
    handles,     \* the extended-mode results invokeSecurePrompt has returned
    prepareCalls, \* number of preparePhoneRequest calls the client has made
    invokeCalls, \* number of invokeSecurePrompt calls the client has made
    ev,          \* the client event handled last
    inflight,    \* Java: a getStatusUrl call between its store.get and its end
    phoneInput,  \* hook client: the text of the phone number field
    phoneError,  \* hook client: the validation message shown under the field
    verifyArg    \* hook client: what verifyPhoneNumber was last called with

serverVars == <<backend, sdkReady, now, issuedKeys, store, jar, last>>
clientVars == <<ui, pending, handles, prepareCalls, invokeCalls, ev>>
hookVars == <<phoneInput, phoneError, verifyArg>>
vars == <<backend, sdkReady, now, issuedKeys, store, jar, last,
          ui, pending, handles, prepareCalls, invokeCalls, ev,
          inflight, phoneInput, phoneError, verifyArg>>

\* ---------------------------------------------------------- partial maps
EmptyMap == [x \in {} |-> Null]
MapPut(m, k, v) == [x \in (DOMAIN m) \cup {k} |-> IF x = k THEN v ELSE m[x]]
MapDel(m, k) == [x \in (DOMAIN m) \ {k} |-> m[x]]

\* ------------------------------------------------------ session registry
\* storeStatusUrl / StoreStatusURL / SessionStoreService.storeStatusUrl
storeStatusUrl(st, sessionKey, statusUrl, t) ==
    MapPut(st, sessionKey, [statusUrl |-> statusUrl, expiresAt |-> t + TTL_MINUTES])

\* A lookup that renews the entry it returns (a sliding TTL).
getStatusUrl_renewing(st, sessionKey, t) ==
    IF sessionKey \in DOMAIN st /\ st[sessionKey].expiresAt > t
    THEN [url |-> st[sessionKey].statusUrl,
          store |-> [st EXCEPT ![sessionKey].expiresAt = t + TTL_MINUTES]]
    ELSE IF sessionKey \in DOMAIN st
         THEN [url |-> Null, store |-> [x \in (DOMAIN st) \ {sessionKey} |-> st[x]]]
         ELSE [url |-> Null, store |-> st]

\* Node getStatusUrl: the value and the store it leaves behind.
getStatusUrl(st, sessionKey, t) ==
    IF sessionKey \in DOMAIN st /\ st[sessionKey].expiresAt > t
    THEN [url |-> st[sessionKey].statusUrl, store |-> st]
    ELSE IF sessionKey \in DOMAIN st
         THEN [url |-> Null, store |-> MapDel(st, sessionKey)]
         ELSE [url |-> Null, store |-> st]

\* Go GetStoredStatusURL: read lock only, nothing is deleted.
GetStoredStatusURL(st, sessionKey, t) ==
    IF sessionKey \notin DOMAIN st \/ st[sessionKey].expiresAt < t
    THEN [url |-> Null, store |-> st]
    ELSE [url |-> st[sessionKey].statusUrl, store |-> st]

\* Java SessionStoreService.getStatusUrl
SessionStoreService_getStatusUrl(st, sessionKey, t) ==
    IF sessionKey \notin DOMAIN st
    THEN [url |-> Null, store |-> st]
    ELSE IF st[sessionKey].expiresAt < t
         THEN [url |-> Null, store |-> MapDel(st, sessionKey)]
         ELSE [url |-> st[sessionKey].statusUrl, store |-> st]

Lookup(b, st, sessionKey, t) ==
    CASE b = "node" -> getStatusUrl(st, sessionKey, t)
      [] b = "go"   -> GetStoredStatusURL(st, sessionKey, t)
      [] b = "java" -> SessionStoreService_getStatusUrl(st, sessionKey, t)

\* A cleanup that tests against a clock value taken once, when the process
\* started, instead of at each run.
cleanupExpiredSessions_staleClock(st, t) ==
    [k \in {x \in DOMAIN st : ~(st[x].expiresAt < 0)} |-> st[k]]

\* The periodic cleanup: setInterval callback / cleanupExpiredSessions.
cleanupExpiredSessions(st, t) ==
    [k \in {x \in DOMAIN st : ~(st[x].expiresAt < t)} |-> st[k]]

\* Java SessionStoreService.getStatusUrl runs on the request's thread with no
\* lock: store.get(sessionKey) is one atomic step of the ConcurrentHashMap,
\* and the expiry test with store.remove(sessionKey) a later one.
NoLookup == [pc |-> "none"]
\* store.get returned null
NoEntry == [absent |-> TRUE]

\* SessionEntry entry = store.get(sessionKey)
SessionStoreService_get(st, sessionKey) ==
    IF sessionKey \in DOMAIN st THEN st[sessionKey] ELSE NoEntry

\* The rest of getStatusUrl, given the entry it read: the store it leaves.
SessionStoreService_afterGet(st, sessionKey, entry, t) ==
    IF entry = NoEntry
    THEN st
    ELSE IF entry.expiresAt < t
         THEN \* store.remove(sessionKey): whatever the key maps to by now
              MapDel(st, sessionKey)
         ELSE st

\* ------------------------------------------------------- binding cookie
\* One cookie name for every session.
getBindingCookieName_shared(sessionKey) == "_glide_bind"

\* SDK getBindingCookieName: one cookie name per session key.
getBindingCookieName(sessionKey) == "_glide_bind_" \o sessionKey

\* A Cookie request header: absent, or a map cookie name -> value.
NoCookieHeader == [present |-> FALSE]
\* The Cookie headers a request can carry: none, or any part of what the
\* browser holds (all of it, or with cookies stripped or expired).
CookieHeaders(jr) ==
    {NoCookieHeader} \cup
    {[present |-> TRUE, cookies |-> [n \in D |-> jr[n]]] : D \in SUBSET (DOMAIN jr)}

\* SDK parseBindingCookie: the value of the cookie named for sessionKey, Null
\* when the header is missing or holds no such cookie.
parseBindingCookie(cookieHeader, sessionKey) ==
    IF ~cookieHeader.present THEN Null
    ELSE IF getBindingCookieName(sessionKey) \in DOMAIN cookieHeader.cookies
         THEN cookieHeader.cookies[getBindingCookieName(sessionKey)]
         ELSE Null

\* ------------------------------------------------------------ the provider
\* What the SDK's prepare returns on success: the session (by its key, Null
\* when the response has no session), the status URL its helper extracts
\* (Null when there is none) and the raw binding secret (Null when none).
PrepareResponses(i) ==
    [session : {SessionKeyNames[i], Null},
     statusUrl : {StatusUrlNames[i], MalformedUrl, Null},
     feCode : {FeCodeNames[i], Null}]

\* How an SDK call fails: a structured MagicalAuthError or anything else.
\* The SDK was not called, so there is no outcome.
NotCalled == [ok |-> FALSE, err |-> [kind |-> "none"]]

SdkFailures ==
    {[kind |-> "MagicalAuthError", status |-> 422, code |-> "CARRIER_NOT_ELIGIBLE"],
     [kind |-> "MagicalAuthError", status |-> 0, code |-> "UNKNOWN"],
     [kind |-> "Exception", message |-> "boom"],
     [kind |-> "Exception", message |-> Null]}

NoBody == [none |-> TRUE]
Idle == [op |-> "idle"]
NoCookie == <<>>

\* ------------------------------------------------------------ catch blocks
\* The message and the details of the error body a handler's catch block
\* sends.  err is what the SDK call threw; a MagicalAuthError carries the
\* provider's message, any other exception its own text (Null: no text, in
\* Node a thrown value that is not an Error).
GenericMessage == "An unexpected error occurred"
ProviderMessage == "provider message"
NoErrorBody == [message |-> Null, details |-> Null]

\* Node: catch (error) of prepare, process and complete
node_catch(err) ==
    IF err.kind = "MagicalAuthError"
    THEN [message |-> ProviderMessage, details |-> Null]
    ELSE \* error instanceof Error ? error.message : 'An unexpected error occurred'
         [message |-> IF err.message # Null THEN err.message ELSE GenericMessage,
          details |-> Null]

\* Go handleGlideError
handleGlideError(err) ==
    IF err.kind = "MagicalAuthError"
    THEN [message |-> ProviderMessage, details |-> Null]
    ELSE \* sendErrorResponse(w, 500, "UNEXPECTED_ERROR", err.Error(), nil)
         [message |-> err.message, details |-> Null]

\* Java getEnvironment(): the spring.profiles.active system property
Environments == {"production", "development"}

\* Java: the catch blocks of PhoneAuthController.prepare and process
PhoneAuthController_catch(err, environment) ==
    IF err.kind = "MagicalAuthError"
    THEN [message |-> ProviderMessage, details |-> Null]
    ELSE [message |-> GenericMessage,
          \* getEnvironment().equals("development") ? Map.of("message", e.getMessage()) : null
          details |-> IF environment = "development" THEN err.message ELSE Null]

\* Java: the catch blocks of PhoneAuthController.complete
PhoneAuthController_complete_catch(err) ==
    IF err.kind = "MagicalAuthError"
    THEN [message |-> ProviderMessage, details |-> Null]
    ELSE [message |-> GenericMessage, details |-> Null]

\* The error body of backend b's handler op when the SDK call threw err.
CatchBody(b, op, err, environment) ==
    CASE b = "node" -> node_catch(err)
      [] b = "go" -> handleGlideError(err)
      [] b = "java" /\ op = "complete" -> PhoneAuthController_complete_catch(err)
      [] b = "java" /\ op # "complete" -> PhoneAuthController_catch(err, environment)

\* ------------------------------------------------------------ default PLMN
\* A PLMN is written MCC-MNC.  DEFAULT_PLMN is { mcc: '310', mnc: '260' }.
DEFAULT_PLMN == "310-260"
\* A PLMN and a phone number a caller supplies.
CallerPlmn == "310-004"
CallerPhoneNumber == "+15551234567"

\* The PLMN of the request each backend hands to the SDK's prepare, given the
\* use_case, phone_number and plmn of the request body (Null: not supplied).
\* Node: if (isGetPhoneNumber && !prepareRequest.plmn) prepareRequest.plmn = DEFAULT_PLMN
node_prepare_plmn(useCase, phoneNumber, plmn) ==
    IF useCase = "GetPhoneNumber" /\ plmn = Null THEN DEFAULT_PLMN ELSE plmn

\* Go: UseCase == GetPhoneNumber && PhoneNumber == "" && PLMN == nil
phoneAuthPrepareHandler_plmn(useCase, phoneNumber, plmn) ==
    IF useCase = "GetPhoneNumber" /\ phoneNumber = Null /\ plmn = Null
    THEN "310-260"
    ELSE plmn

\* Java GlideService.prepare: the caller's PLMN, else if the use case is
\* GetPhoneNumber new PLMN("310", "260")
GlideService_prepare_plmn(useCase, phoneNumber, plmn) ==
    IF plmn # Null
    THEN plmn
    ELSE IF useCase = "GetPhoneNumber" THEN "310-260" ELSE Null

\* ------------------------------------------------------------ prepare
\* Node app.post('/api/phone-auth/prepare').  sdk is the outcome of
\* glide.magicalAuth.prepare: [ok |-> TRUE, resp |-> r] or [ok |-> FALSE, err |-> e].
\* nodeEnv is process.env.NODE_ENV, forwardedProto the x-forwarded-proto
\* header (Null when the request has none).  A cookie is <<name, value, Secure>>.
node_prepare(useCase, sdk, st, t, nodeEnv, forwardedProto) ==
    IF useCase = Null
    THEN [status |-> 400, code |-> "MISSING_REQUIRED_FIELD", body |-> NoBody,
          store |-> st, cookie |-> NoCookie, called |-> FALSE]
    ELSE IF ~sdk.ok
    THEN IF sdk.err.kind = "MagicalAuthError"
         THEN [status |-> IF sdk.err.status = 0 THEN 500 ELSE sdk.err.status,
               code |-> sdk.err.code, body |-> NoBody,
               store |-> st, cookie |-> NoCookie, called |-> TRUE]
         ELSE [status |-> 500, code |-> "INTERNAL_SERVER_ERROR", body |-> NoBody,
               store |-> st, cookie |-> NoCookie, called |-> TRUE]
    ELSE LET response == sdk.resp
             sessionKey == response.session
             isSecure == nodeEnv = "production" \/ forwardedProto = "https"
         IN [status |-> 200, code |-> Null,
             \* const { feCode: _stripped, ...clientResponse } = response
             body |-> [session |-> response.session, statusUrl |-> response.statusUrl,
                       feCode |-> Null],
             store |-> IF response.statusUrl # Null /\ sessionKey # Null
                       THEN storeStatusUrl(st, sessionKey, response.statusUrl, t)
                       ELSE st,
             cookie |-> IF response.feCode # Null /\ sessionKey # Null
                        THEN <<getBindingCookieName(sessionKey),
                               toLowerCase(response.feCode), isSecure>>
                        ELSE NoCookie,
             called |-> TRUE]

\* Go phoneAuthPrepareHandler.  decodable: the body parses as a PrepareRequest.
phoneAuthPrepareHandler(ready, decodable, sdk, st, t) ==
    IF ~ready
    THEN [status |-> 503, code |-> "SDK_NOT_INITIALIZED", body |-> NoBody,
          store |-> st, cookie |-> NoCookie, called |-> FALSE]
    ELSE IF ~decodable
    THEN [status |-> 400, code |-> "INVALID_REQUEST", body |-> NoBody,
          store |-> st, cookie |-> NoCookie, called |-> FALSE]
    ELSE IF ~sdk.ok
    THEN IF sdk.err.kind = "MagicalAuthError"
         THEN [status |-> IF sdk.err.status = 0 THEN 500 ELSE sdk.err.status,
               code |-> sdk.err.code, body |-> NoBody,
               store |-> st, cookie |-> NoCookie, called |-> TRUE]
         ELSE [status |-> 500, code |-> "UNEXPECTED_ERROR", body |-> NoBody,
               store |-> st, cookie |-> NoCookie, called |-> TRUE]
    ELSE LET response == sdk.resp
         IN [status |-> 200, code |-> Null,
             \* json.NewEncoder(w).Encode(response): the response as it is
             body |-> response,
             \* response.Session.SessionKey is "" when there is no session
             store |-> IF response.statusUrl # Null
                       THEN storeStatusUrl(st, response.session, response.statusUrl, t)
                       ELSE st,
             cookie |-> NoCookie, called |-> TRUE]

\* Java PhoneAuthController.prepare with GlideService.prepare.  scheme is
\* httpRequest.getScheme(), forwardedProto the X-Forwarded-Proto header.
PhoneAuthController_prepare(ready, sdk, st, t, scheme, forwardedProto) ==
    IF ~ready
    THEN \* IllegalStateException, caught by catch (Exception e)
         [status |-> 500, code |-> "INTERNAL_ERROR", body |-> NoBody,
          store |-> st, cookie |-> NoCookie, called |-> FALSE]
    ELSE IF ~sdk.ok
    THEN IF sdk.err.kind = "MagicalAuthError"
         THEN [status |-> sdk.err.status, code |-> sdk.err.code, body |-> NoBody,
               store |-> st, cookie |-> NoCookie, called |-> TRUE]
         ELSE [status |-> 500, code |-> "INTERNAL_ERROR", body |-> NoBody,
               store |-> st, cookie |-> NoCookie, called |-> TRUE]
    ELSE LET response == sdk.resp
             bind == response.feCode # Null /\ response.session # Null
             isSecure == scheme = "https" \/ forwardedProto = "https"
         IN [status |-> 200, code |-> Null,
             \* response.setFeCode(null) sits inside the if that sets the cookie
             body |-> IF bind THEN [response EXCEPT !.feCode = Null] ELSE response,
             store |-> IF response.statusUrl # Null /\ response.session # Null
                       THEN storeStatusUrl(st, response.session, response.statusUrl, t)
                       ELSE st,
             cookie |-> IF bind
                        THEN <<getBindingCookieName(response.session),
                               toLowerCase(response.feCode), isSecure>>
                        ELSE NoCookie,
             called |-> TRUE]

\* ------------------------------------------------------------ status proxy
\* What the stored status URL answers: unreachable (network failure), or a
\* status code with a body that is JSON or is not.
JsonBody == "{\"status\":\"pending\"}"
HtmlBody == "<html>Bad Gateway</html>"
IsJson(body) == body = JsonBody
Upstreams ==
    {[reachable |-> FALSE, status |-> 0, body |-> Null]} \cup
    [reachable : {TRUE}, status : {200, 404, 502}, body : {JsonBody, HtmlBody}]
\* No outbound request was made, so there is no answer.
NoUpstream == [reachable |-> FALSE, status |-> -1, body |-> Null]

\* Node app.get('/api/phone-auth/status/:sessionId')
node_status(sessionId, up, st, t) ==
    IF sessionId = ""
    THEN [status |-> 400, code |-> "INVALID_REQUEST", body |-> Null,
          fetched |-> FALSE, found |-> Null, store |-> st]
    ELSE LET got == getStatusUrl(st, sessionId, t)
             statusUrl == got.url
         IN IF statusUrl = Null
            THEN [status |-> 404, code |-> "SESSION_NOT_FOUND", body |-> Null,
                  fetched |-> FALSE, found |-> Null, store |-> got.store]
            ELSE IF ~UrlWellFormed(statusUrl)
            THEN \* fetch rejects, nothing is sent
                 [status |-> 500, code |-> "STATUS_CHECK_FAILED", body |-> Null,
                  fetched |-> FALSE, found |-> statusUrl, store |-> got.store]
            ELSE IF ~up.reachable \/ ~IsJson(up.body)
            THEN \* fetch or response.json() throws
                 [status |-> 500, code |-> "STATUS_CHECK_FAILED", body |-> Null,
                  fetched |-> TRUE, found |-> statusUrl, store |-> got.store]
            ELSE [status |-> up.status, code |-> Null, body |-> up.body,
                  fetched |-> TRUE, found |-> statusUrl, store |-> got.store]

\* Go phoneAuthStatusHandler
phoneAuthStatusHandler(method, sessionID, up, st, t) ==
    IF method # "GET"
    THEN [status |-> 405, code |-> Null, body |-> "Method not allowed",
          fetched |-> FALSE, found |-> Null, store |-> st]
    ELSE IF sessionID = ""
    THEN [status |-> 400, code |-> "INVALID_REQUEST", body |-> Null,
          fetched |-> FALSE, found |-> Null, store |-> st]
    ELSE LET got == GetStoredStatusURL(st, sessionID, t)
             statusURL == got.url
         IN IF statusURL = Null
            THEN [status |-> 404, code |-> "SESSION_NOT_FOUND", body |-> Null,
                  fetched |-> FALSE, found |-> Null, store |-> got.store]
            ELSE IF ~UrlWellFormed(statusURL)
            THEN \* http.NewRequest fails
                 [status |-> 500, code |-> "REQUEST_ERROR", body |-> Null,
                  fetched |-> FALSE, found |-> statusURL, store |-> got.store]
            ELSE IF ~up.reachable
            THEN [status |-> 500, code |-> "STATUS_CHECK_FAILED", body |-> Null,
                  fetched |-> TRUE, found |-> statusURL, store |-> got.store]
            ELSE IF ~IsJson(up.body)
            THEN [status |-> 500, code |-> "DECODE_ERROR", body |-> Null,
                  fetched |-> TRUE, found |-> statusURL, store |-> got.store]
            ELSE [status |-> up.status, code |-> Null, body |-> up.body,
                  fetched |-> TRUE, found |-> statusURL, store |-> got.store]

\* Java PhoneAuthController.getStatus
PhoneAuthController_getStatus(sessionId, up, st, t) ==
    LET got == SessionStoreService_getStatusUrl(st, sessionId, t)
        statusUrlOpt == got.url
    IN IF statusUrlOpt = Null
       THEN [status |-> 404, code |-> "SESSION_NOT_FOUND", body |-> Null,
             fetched |-> FALSE, found |-> Null, store |-> got.store]
       ELSE IF ~UrlWellFormed(statusUrlOpt)
       THEN \* URI.create throws
            [status |-> 500, code |-> "STATUS_CHECK_FAILED", body |-> Null,
             fetched |-> FALSE, found |-> statusUrlOpt, store |-> got.store]
       ELSE IF ~up.reachable
       THEN [status |-> 500, code |-> "STATUS_CHECK_FAILED", body |-> Null,
             fetched |-> TRUE, found |-> statusUrlOpt, store |-> got.store]
       ELSE IF up.status >= 400
       THEN \* the body string is passed on unparsed
            [status |-> up.status, code |-> Null, body |-> up.body,
             fetched |-> TRUE, found |-> statusUrlOpt, store |-> got.store]
       ELSE IF ~IsJson(up.body)
       THEN [status |-> 500, code |-> "STATUS_CHECK_FAILED", body |-> Null,
             fetched |-> TRUE, found |-> statusUrlOpt, store |-> got.store]
       ELSE [status |-> 200, code |-> Null, body |-> up.body,
             fetched |-> TRUE, found |-> statusUrlOpt, store |-> got.store]

\* ------------------------------------------------------------ complete
\* What glide.magicalAuth.complete / reportInvocation return on success.
SdkDone == [ok |-> TRUE, resp |-> [success |-> TRUE]]
NotSent == [none |-> TRUE]

\* A complete handler that goes on when the binding cookie is missing.
node_complete_unchecked(session_key, agg_code, cookieHeader, sdk) ==
    IF session_key = Null \/ agg_code = Null
    THEN [status |-> 400, code |-> "MISSING_REQUIRED_FIELD", sent |-> NotSent]
    ELSE LET request == [session_key |-> session_key,
                         fe_code |-> parseBindingCookie(cookieHeader, session_key),
                         agg_code |-> agg_code]
         IN IF sdk.ok
            THEN [status |-> 204, code |-> Null, sent |-> request]
            ELSE [status |-> 500, code |-> "INTERNAL_SERVER_ERROR", sent |-> request]

\* Node app.post('/api/phone-auth/complete').  sent is the request handed to
\* the SDK's complete, NotSent when it is not called.
node_complete(session_key, agg_code, cookieHeader, sdk) ==
    IF session_key = Null \/ agg_code = Null
    THEN [status |-> 400, code |-> "MISSING_REQUIRED_FIELD", sent |-> NotSent]
    ELSE LET feCode == parseBindingCookie(cookieHeader, session_key)
         IN IF feCode = Null
            THEN [status |-> 403, code |-> "MISSING_BINDING_COOKIE", sent |-> NotSent]
            ELSE LET request == [session_key |-> session_key, fe_code |-> feCode,
                                 agg_code |-> agg_code]
                 IN IF sdk.ok
                    THEN [status |-> 204, code |-> Null, sent |-> request]
                    ELSE IF sdk.err.kind = "MagicalAuthError"
                    THEN [status |-> IF sdk.err.status = 0 THEN 500 ELSE sdk.err.status,
                          code |-> sdk.err.code, sent |-> request]
                    ELSE [status |-> 500, code |-> "INTERNAL_SERVER_ERROR",
                          sent |-> request]

\* A complete handler that reads whichever binding cookie the request has
\* (one cookie name for all sessions).
PhoneAuthController_complete_anyCookie(ready, sessionKey, aggCode, cookieHeader, sdk) ==
    IF sessionKey = Null \/ aggCode = Null
    THEN [status |-> 400, code |-> "MISSING_REQUIRED_FIELD", sent |-> NotSent]
    ELSE LET feCode == IF cookieHeader.present /\ DOMAIN cookieHeader.cookies # {}
                       THEN cookieHeader.cookies[CHOOSE n \in DOMAIN cookieHeader.cookies : TRUE]
                       ELSE Null
         IN IF feCode = Null
            THEN [status |-> 403, code |-> "MISSING_BINDING_COOKIE", sent |-> NotSent]
            ELSE IF ~ready
            THEN [status |-> 500, code |-> "INTERNAL_ERROR", sent |-> NotSent]
            ELSE LET request == [session_key |-> sessionKey, fe_code |-> feCode,
                                 agg_code |-> aggCode]
                 IN IF sdk.ok
                    THEN [status |-> 204, code |-> Null, sent |-> request]
                    ELSE [status |-> 500, code |-> "INTERNAL_ERROR", sent |-> request]

\* Java PhoneAuthController.complete with GlideService.complete.
PhoneAuthController_complete(ready, sessionKey, aggCode, cookieHeader, sdk) ==
    IF sessionKey = Null \/ aggCode = Null
    THEN [status |-> 400, code |-> "MISSING_REQUIRED_FIELD", sent |-> NotSent]
    ELSE LET feCode == IF cookieHeader.present
                       THEN parseBindingCookie(cookieHeader, sessionKey)
                       ELSE Null
         IN IF feCode = Null
            THEN [status |-> 403, code |-> "MISSING_BINDING_COOKIE", sent |-> NotSent]
            ELSE IF ~ready
            THEN \* IllegalStateException, caught by catch (Exception e)
                 [status |-> 500, code |-> "INTERNAL_ERROR", sent |-> NotSent]
            ELSE LET request == [session_key |-> sessionKey, fe_code |-> feCode,
                                 agg_code |-> aggCode]
                 IN IF sdk.ok
                    THEN [status |-> 204, code |-> Null, sent |-> request]
                    ELSE IF sdk.err.kind = "MagicalAuthError"
                    THEN [status |-> sdk.err.status, code |-> sdk.err.code,
                          sent |-> request]
                    ELSE [status |-> 500, code |-> "INTERNAL_ERROR", sent |-> request]

\* ------------------------------------------------------------ process
\* What getPhoneNumber / verifyPhoneNumber return on success.
ProcessDone == [ok |-> TRUE, resp |-> [phone_number |-> "+15551234567"]]

\* A binding secret a client writes into the body of its request.
BodySecret == "ffff"

\* A process handler that falls back to a secret from the request body.
node_process_bodySecret(use_case, session, credential, bodyFeCode, cookieHeader, sdk) ==
    IF use_case = Null \/ session = Null \/ credential = Null
    THEN [status |-> 400, code |-> "MISSING_REQUIRED_FIELD", sent |-> NotSent]
    ELSE LET cookie == parseBindingCookie(cookieHeader, session)
             feCode == IF cookie # Null THEN cookie ELSE bodyFeCode
             request == [session |-> session, credential |-> credential,
                         fe_code |-> feCode]
         IN IF use_case \notin {"GetPhoneNumber", "VerifyPhoneNumber"}
            THEN [status |-> 400, code |-> "INVALID_USE_CASE", sent |-> NotSent]
            ELSE IF sdk.ok
            THEN [status |-> 200, code |-> Null, sent |-> request]
            ELSE [status |-> 500, code |-> "INTERNAL_SERVER_ERROR", sent |-> request]

\* Node app.post('/api/phone-auth/process').  session is the session object of
\* the body (by its session_key), bodyFeCode a fe_code field the client put
\* into the body; sent is the request handed to the SDK.
node_process(use_case, session, credential, bodyFeCode, cookieHeader, sdk) ==
    IF use_case = Null \/ session = Null \/ credential = Null
    THEN [status |-> 400, code |-> "MISSING_REQUIRED_FIELD", sent |-> NotSent]
    ELSE LET sessionKey == session
             feCode == parseBindingCookie(cookieHeader, sessionKey)
             \* { session, credential, ...(feCode && { fe_code: feCode }) }
             request == [session |-> session, credential |-> credential,
                         fe_code |-> feCode]
         IN IF use_case \notin {"GetPhoneNumber", "VerifyPhoneNumber"}
            THEN [status |-> 400, code |-> "INVALID_USE_CASE", sent |-> NotSent]
            ELSE IF sdk.ok
            THEN [status |-> 200, code |-> Null, sent |-> request]
            ELSE IF sdk.err.kind = "MagicalAuthError"
            THEN [status |-> IF sdk.err.status = 0 THEN 500 ELSE sdk.err.status,
                  code |-> sdk.err.code, sent |-> request]
            ELSE [status |-> 500, code |-> "INTERNAL_SERVER_ERROR", sent |-> request]

\* Go phoneAuthProcessHandler: the body struct has use_case, session and
\* credential only, and no cookie is read.
phoneAuthProcessHandler(ready, use_case, session, credential, bodyFeCode, cookieHeader, sdk) ==
    IF ~ready
    THEN [status |-> 503, code |-> "SDK_NOT_INITIALIZED", sent |-> NotSent]
    ELSE IF use_case = Null \/ credential = Null
    THEN [status |-> 400, code |-> "VALIDATION_ERROR", sent |-> NotSent]
    ELSE LET request == [session |-> session, credential |-> credential,
                         fe_code |-> Null]
         IN IF use_case \notin {"GetPhoneNumber", "VerifyPhoneNumber"}
            THEN [status |-> 400, code |-> "VALIDATION_ERROR", sent |-> NotSent]
            ELSE IF sdk.ok
            THEN [status |-> 200, code |-> Null, sent |-> request]
            ELSE IF sdk.err.kind = "MagicalAuthError"
            THEN [status |-> IF sdk.err.status = 0 THEN 500 ELSE sdk.err.status,
                  code |-> sdk.err.code, sent |-> request]
            ELSE [status |-> 500, code |-> "UNEXPECTED_ERROR", sent |-> request]

\* Java PhoneAuthController.process with GlideService.processCredential.
PhoneAuthController_process(ready, use_case, session, credential, bodyFeCode, cookieHeader, sdk) ==
    LET sessionKey == session
        feCode == IF cookieHeader.present /\ sessionKey # Null
                  THEN parseBindingCookie(cookieHeader, sessionKey)
                  ELSE Null
        request == [session |-> session, credential |-> credential,
                    fe_code |-> feCode]
    IN IF ~ready
       THEN \* IllegalStateException, caught by catch (Exception e)
            [status |-> 500, code |-> "INTERNAL_ERROR", sent |-> NotSent]
       ELSE IF use_case \notin {"GetPhoneNumber", "VerifyPhoneNumber"}
       THEN \* IllegalArgumentException
            [status |-> 400, code |-> "VALIDATION_ERROR", sent |-> NotSent]
       ELSE IF sdk.ok
       THEN [status |-> 200, code |-> Null, sent |-> request]
       ELSE IF sdk.err.kind = "MagicalAuthError"
       THEN [status |-> sdk.err.status, code |-> sdk.err.code, sent |-> request]
       ELSE [status |-> 500, code |-> "INTERNAL_ERROR", sent |-> request]

\* The process handler of backend b.
ProcessHandler(b, ready, use_case, session, credential, bodyFeCode, cookieHeader, sdk) ==
    CASE b = "node" ->
            node_process(use_case, session, credential, bodyFeCode, cookieHeader, sdk)
      [] b = "go" ->
            phoneAuthProcessHandler(ready, use_case, session, credential, bodyFeCode,
                                    cookieHeader, sdk)
      [] b = "java" ->
            PhoneAuthController_process(ready, use_case, session, credential,
                                        bodyFeCode, cookieHeader, sdk)

\* ------------------------------------------------------------ routes
\* The routes each server registers.
Routes(b) ==
    CASE b = "node" -> {"health", "prepare", "invoke", "process", "status",
                        "glide-complete", "complete"}
      [] b = "go" -> {"health", "prepare", "invoke", "process", "status"}
      [] b = "java" -> {"health", "prepare", "invoke", "process", "status",
                        "glide-complete", "complete"}

\* The status and the error code backend b answers to a process request.
ProcessAnswer(b, use_case, session, credential, bodyFeCode, cookieHeader, sdk) ==
    LET x == ProcessHandler(b, TRUE, use_case, session, credential, bodyFeCode,
                            cookieHeader, sdk)
    IN <<x.status, x.code>>

\* ------------------------------------------------------------ invoke
\* The body of an invoke request: JSON with a session_id, JSON without one,
\* or bytes that do not parse as JSON.
InvokeBodies == {"with session_id", "without session_id", "undecodable"}

\* Node app.post('/api/phone-auth/invoke') behind app.use(express.json()).
node_invoke(reqBody, sdk) ==
    IF reqBody = "undecodable"
    THEN \* express.json() rejects the request before the handler runs
         [status |-> 400, success |-> Null, called |-> FALSE]
    ELSE IF reqBody = "without session_id"
    THEN [status |-> 200, success |-> FALSE, called |-> FALSE]
    ELSE IF sdk.ok
    THEN [status |-> 200, success |-> sdk.resp.success, called |-> TRUE]
    ELSE [status |-> 200, success |-> FALSE, called |-> TRUE]

\* Go phoneAuthInvokeHandler
phoneAuthInvokeHandler(ready, method, reqBody, sdk) ==
    IF method # "POST"
    THEN [status |-> 405, success |-> Null, called |-> FALSE]
    ELSE IF reqBody = "undecodable"
    THEN [status |-> 200, success |-> FALSE, called |-> FALSE]
    ELSE IF reqBody = "without session_id"
    THEN [status |-> 200, success |-> FALSE, called |-> FALSE]
    ELSE IF ~ready
    THEN [status |-> 200, success |-> FALSE, called |-> FALSE]
    ELSE IF sdk.ok
    THEN [status |-> 200, success |-> sdk.resp.success, called |-> TRUE]
    ELSE [status |-> 200, success |-> FALSE, called |-> TRUE]

\* Java PhoneAuthController.invoke with GlideService.reportInvocation.
PhoneAuthController_invoke(ready, reqBody, sdk) ==
    IF reqBody = "undecodable"
    THEN \* @RequestBody cannot be read: Spring answers 400, invoke does not run
         [status |-> 400, success |-> Null, called |-> FALSE]
    ELSE IF reqBody = "without session_id"
    THEN [status |-> 200, success |-> FALSE, called |-> FALSE]
    ELSE IF ~ready
    THEN \* IllegalStateException("Glide client not initialized ...")
         [status |-> 200, success |-> FALSE, called |-> FALSE]
    ELSE IF sdk.ok
    THEN [status |-> 200, success |-> sdk.resp.success, called |-> TRUE]
    ELSE IF sdk.err.kind = "Exception" /\ sdk.err.message = Null
    THEN \* Map.of("success", false, "error", e.getMessage()) rejects a null
         \* value: NullPointerException inside the catch block
         [status |-> 500, success |-> Null, called |-> TRUE]
    ELSE [status |-> 200, success |-> FALSE, called |-> TRUE]

\* =========================================================== the client
\* App.jsx, the step-by-step ("granular") flow of the React component.  A
\* handler runs from a click on the latest render, so its closure holds the
\* state of that moment; it suspends at each await and goes on when the SDK
\* promise settles.  The high-level one-click flow is not followed.

\* useState initial values (an extendedResponse of 0 is null).
InitialUi ==
    [mounted |-> TRUE, loading |-> FALSE, currentStep |-> 0,
     stepOneResp |-> Null, stepTwoResp |-> Null, stepThreeResp |-> Null,
     stepOneError |-> Null, stepTwoError |-> Null, stepThreeError |-> Null,
     extendedResponse |-> 0, isPolling |-> FALSE]

NoEvent == [op |-> "none"]

\* What a click handler's closure holds of the state it was created in.
Seen(u) ==
    [stepOneResp |-> u.stepOneResp, stepTwoResp |-> u.stepTwoResp,
     stepTwoError |-> u.stepTwoError, extendedResponse |-> u.extendedResponse]

\* The credential a prompt started for session k yields.
CredentialFor(k) == "credential of " \o k

CancelledMessage == "Cancelled by user - you can retry"
StepTwoFailure == "Browser verification failed"

\* An async handler suspended at an await, with what its closure captured.
Task(id, fn, at, stepOneResp, isRetry, extendedResponse, handle) ==
    [id |-> id, fn |-> fn, at |-> at, stepOneResp |-> stepOneResp,
     isRetry |-> isRetry, extendedResponse |-> extendedResponse,
     handle |-> handle, superseded |-> FALSE]

\* ---- what the buttons allow (the JSX of the render)
\* Step 1 button: disabled={stepOneResp !== null || loading || ...}
StepOneDisabled_ignoringResp(u) == u.loading

StepOneDisabled(u) == u.stepOneResp # Null \/ u.loading

\* Step 2 "Execute Step" button, rendered when !isPolling.
StepTwoDisabled(u) ==
    \/ u.stepOneResp = Null
    \/ (u.stepTwoResp # Null /\ u.stepTwoError = Null)
    \/ u.loading

\* "Retry Step" is rendered inside the stepTwoError box.
RetryStepShown(u) ==
    /\ u.stepTwoError # Null
    /\ (u.extendedResponse # 0 \/ u.stepTwoError = CancelledMessage)

\* Step 3 button
StepThreeDisabled(u) ==
    u.stepTwoResp = Null \/ u.stepThreeResp # Null \/ u.loading

\* "Reset Flow" button
ResetFlowShown(u) ==
    \/ u.stepThreeResp # Null
    \/ u.stepOneError # Null
    \/ u.stepTwoError # Null
    \/ u.stepThreeError # Null

\* ---- the handlers, as functions of the state they see
\* executeStepOne up to its await
executeStepOne(u) ==
    [u EXCEPT !.loading = TRUE, !.stepOneError = Null, !.currentStep = 1]

\* executeStepOne after preparePhoneRequest settled (try / catch / finally)
executeStepOne_settled(u, ok, response) ==
    IF ok
    THEN [u EXCEPT !.stepOneResp = response, !.currentStep = 2, !.loading = FALSE]
    ELSE [u EXCEPT !.stepOneError = "Failed to prepare authentication",
                   !.loading = FALSE]

\* executeStepTwo up to its first await: ui is the state it leaves, called
\* tells whether invokeSecurePrompt was called, with is the argument.
executeStepTwo(u, isRetry) ==
    IF u.stepOneResp = Null
    THEN [ui |-> u, called |-> FALSE, with |-> Null]
    ELSE [ui |-> [u EXCEPT !.loading = TRUE, !.stepTwoError = Null,
                           !.currentStep = 2],
          called |-> TRUE, with |-> u.stepOneResp]

\* executeStepTwo after invokeSecurePrompt resolved with handle h
executeStepTwo_invoked(u, strategy, h) ==
    IF strategy = "link"
    THEN [u EXCEPT !.extendedResponse = h, !.isPolling = TRUE]
    ELSE u

\* executeStepTwo after the credential promise resolved; t is the suspended
\* handler, whose closure still holds the extendedResponse of the click.
executeStepTwo_credential(u, t, strategy, credential) ==
    [u EXCEPT !.isPolling = IF strategy = "link" THEN FALSE ELSE @,
              !.stepTwoResp = credential,
              !.currentStep = 3,
              !.extendedResponse = IF t.extendedResponse # 0 THEN 0 ELSE @,
              !.loading = FALSE]

\* executeStepTwo's catch and finally
executeStepTwo_catch(u) ==
    [u EXCEPT !.stepTwoError = StepTwoFailure, !.isPolling = FALSE,
              !.loading = FALSE]

\* An executeStepThree that does not look at what is stored.
executeStepThree_unguarded(u) ==
    [ui |-> [u EXCEPT !.loading = TRUE, !.stepThreeError = Null,
                      !.currentStep = 3],
     called |-> TRUE, credential |-> u.stepTwoResp, session |-> u.stepOneResp]

\* executeStepThree up to its await: the process call it makes, if any.
executeStepThree(u) ==
    IF u.stepOneResp = Null \/ u.stepTwoResp = Null
    THEN [ui |-> u, called |-> FALSE, credential |-> Null, session |-> Null]
    ELSE [ui |-> [u EXCEPT !.loading = TRUE, !.stepThreeError = Null,
                           !.currentStep = 3],
          called |-> TRUE, credential |-> u.stepTwoResp, session |-> u.stepOneResp]

\* executeStepThree after the process call settled
executeStepThree_settled(u, ok) ==
    IF ok
    THEN [u EXCEPT !.stepThreeResp = "verified", !.currentStep = 0,
                   !.loading = FALSE]
    ELSE [u EXCEPT !.stepThreeError = "Verification processing failed",
                   !.loading = FALSE]

\* resetGranularFlow: the state it leaves (loading is not touched)
resetGranularFlow(u) ==
    [u EXCEPT !.currentStep = 0,
              !.stepOneResp = Null, !.stepTwoResp = Null, !.stepThreeResp = Null,
              !.stepOneError = Null, !.stepTwoError = Null, !.stepThreeError = Null,
              !.extendedResponse = 0, !.isPolling = FALSE]

\* resetApp: the state it leaves
resetApp(u) == [InitialUi EXCEPT !.mounted = u.mounted]

\* The Cancel button's onClick: the state it leaves
cancelStepTwo(u) ==
    [u EXCEPT !.extendedResponse = 0, !.isPolling = FALSE, !.loading = FALSE,
              !.stepTwoError = CancelledMessage]

\* A handle whose credential promise has settled: its wait is over and
\* nothing of it is looked at again.
Settled == [session |-> Null, strategy |-> "none", torn |-> FALSE, wait |-> "settled"]

\* extendedResponse.cancel() / extendedResponse.stop_polling() on the handle
\* the state holds: the handle is torn down.
TearDown(hs, h) ==
    IF h = 0 \/ hs[h] = Settled THEN hs ELSE [hs EXCEPT ![h].torn = TRUE]

\* The credential waits pending when the user cancels or resets belong to an
\* attempt that is over.
Supersede(ts) ==
    {IF t.fn = "executeStepTwo" /\ t.at = "credential"
     THEN [t EXCEPT !.superseded = TRUE] ELSE t : t \in ts}

\* The credential waits that are running: not settled, not torn down.
ActiveWaits == {h \in DOMAIN handles : handles[h].wait = "pending" /\ ~handles[h].torn}

\* ------------------------------------------------------------------ init
Init ==
    /\ backend \in Backends
    /\ sdkReady \in BOOLEAN
    /\ (backend = "node" => sdkReady)
    /\ now = 0
    /\ issuedKeys = 0
    /\ store = EmptyMap
    /\ jar = EmptyMap
    /\ last = Idle
    /\ ui = InitialUi
    /\ pending = {}
    /\ handles = <<>>
    /\ prepareCalls = 0
    /\ invokeCalls = 0
    /\ ev = NoEvent
    /\ inflight = NoLookup
    /\ phoneInput = <<>>
    /\ phoneError = ""
    /\ verifyArg = Null

\* Time passes.
Tick ==
    /\ last = Idle
    /\ now < MaxTime
    /\ now' = now + 1
    /\ UNCHANGED <<backend, sdkReady, issuedKeys, store, jar, last>>
    /\ UNCHANGED <<clientVars, inflight, hookVars>>

\* The answer of the request handled last reaches the browser, which keeps
\* the cookie of a Set-Cookie header (or the timer callback has returned).
Return ==
    /\ last # Idle
    /\ last' = Idle
    /\ jar' = IF last.op = "prepare" /\ last.cookie # NoCookie
              THEN MapPut(jar, last.cookie[1], last.cookie[2])
              ELSE jar
    /\ UNCHANGED <<backend, sdkReady, now, issuedKeys, store>>
    /\ UNCHANGED <<clientVars, inflight, hookVars>>

\* The answer reaches a client that keeps no cookies (a script, or a browser
\* that blocks them), or the timer callback has returned.
Discard ==
    /\ last # Idle
    /\ last' = Idle
    /\ UNCHANGED <<backend, sdkReady, now, issuedKeys, store, jar>>
    /\ UNCHANGED <<clientVars, inflight, hookVars>>

\* The cleanup timer fires.
Sweep ==
    /\ last = Idle
    /\ store' = cleanupExpiredSessions(store, now)
    /\ last' = [op |-> "sweep", at |-> now, before |-> store]
    /\ UNCHANGED <<backend, sdkReady, now, issuedKeys, jar>>
    /\ UNCHANGED <<clientVars, inflight, hookVars>>

\* POST /api/phone-auth/prepare
Prepare ==
    /\ last = Idle
    /\ \E sdk \in {NotCalled}
              \cup {[ok |-> TRUE, resp |-> x] :
                      x \in {y \in PrepareResponses(issuedKeys + 1) :
                               backend = "go" => y.feCode = Null}}
              \cup {[ok |-> FALSE, err |-> e] :
                      e \in {x \in SdkFailures : x.kind = "Exception" => x.message # Null}} :
         \E useCase \in {"GetPhoneNumber", "VerifyPhoneNumber", Null},
            decodable \in IF backend = "go" THEN BOOLEAN ELSE {TRUE},
            phoneNumber \in IF sdk = NotCalled THEN {Null} ELSE {CallerPhoneNumber, Null},
            plmn \in IF sdk = NotCalled THEN {Null} ELSE {CallerPlmn, Null},
            scheme \in IF sdk.ok THEN {"http", "https"} ELSE {"http"},
            forwardedProto \in IF sdk.ok THEN {"https", Null} ELSE {Null},
            nodeEnv \in IF sdk.ok THEN {"development", "production"} ELSE {"development"},
            environment \in IF backend = "java" /\ ~sdk.ok THEN Environments
                            ELSE {"production"} :
           LET r == CASE backend = "node" -> node_prepare(useCase, sdk, store, now,
                                                            nodeEnv, forwardedProto)
                      [] backend = "go" ->
                           phoneAuthPrepareHandler(sdkReady, decodable, sdk, store, now)
                      [] backend = "java" ->
                           PhoneAuthController_prepare(sdkReady, sdk, store, now,
                                                       scheme, forwardedProto)
               issued == r.called /\ sdk.ok /\ sdk.resp.session # Null
               threw == r.called /\ ~sdk.ok
               caught == IF threw THEN CatchBody(backend, "prepare", sdk.err, environment)
                         ELSE NoErrorBody
               sentPlmn == CASE backend = "node" ->
                                   node_prepare_plmn(useCase, phoneNumber, plmn)
                             [] backend = "go" ->
                                   phoneAuthPrepareHandler_plmn(useCase, phoneNumber, plmn)
                             [] backend = "java" ->
                                   GlideService_prepare_plmn(useCase, phoneNumber, plmn)
           IN /\ issuedKeys < MaxSessions
              /\ now <= LastPrepare
              /\ (r.called <=> sdk # NotCalled)
              /\ (backend # "node" => useCase # Null)
              /\ (backend # "go" => decodable)
              \* the rest of the body plays no part when the SDK is not called
              /\ (~r.called =>
                      useCase # "VerifyPhoneNumber" /\ phoneNumber = Null /\ plmn = Null)
              \* the scheme, the header and the environment are looked at only
              \* when a cookie is set
              /\ (r.cookie = NoCookie =>
                      scheme = "http" /\ forwardedProto = Null /\ nodeEnv = "development")
              \* the profile is looked at only by Java's catch (Exception e)
              /\ (~(backend = "java" /\ threw /\ sdk.err.kind = "Exception") =>
                      environment = "production")
              /\ store' = r.store
              /\ issuedKeys' = IF issued THEN issuedKeys + 1 ELSE issuedKeys
              /\ last' = [op |-> "prepare", status |-> r.status, code |-> r.code,
                           body |-> r.body, cookie |-> r.cookie,
                           scheme |-> scheme, forwardedProto |-> forwardedProto,
                           nodeEnv |-> nodeEnv,
                           resp |-> IF r.called /\ sdk.ok THEN sdk.resp ELSE NoBody,
                           before |-> store,
                           useCase |-> useCase, phoneNumber |-> phoneNumber,
                           plmn |-> plmn,
                           called |-> r.called,
                           sentPlmn |-> IF r.called THEN sentPlmn ELSE Null,
                           failure |-> IF threw THEN sdk.err.kind ELSE "none",
                           message |-> caught.message, details |-> caught.details]
              /\ UNCHANGED <<backend, sdkReady, now, jar>>
              /\ UNCHANGED <<clientVars, inflight, hookVars>>

\* GET /api/phone-auth/status/:sessionId
Status ==
    /\ last = Idle
    /\ \E sessionId \in SessionKeys \cup {""}, method \in {"GET", "POST"},
          up \in Upstreams \cup {NoUpstream} :
           LET r == CASE backend = "node" -> node_status(sessionId, up, store, now)
                      [] backend = "go" ->
                           phoneAuthStatusHandler(method, sessionId, up, store, now)
                      [] backend = "java" ->
                           PhoneAuthController_getStatus(sessionId, up, store, now)
           IN /\ (r.fetched <=> up # NoUpstream)
              /\ (backend # "go" => method = "GET")
              /\ (backend # "go" => sessionId # "")
              /\ store' = r.store
              /\ last' = [op |-> "status", method |-> method, sessionId |-> sessionId,
                           at |-> now, before |-> store, upstream |-> up,
                           found |-> r.found, fetched |-> r.fetched,
                           status |-> r.status, code |-> r.code, body |-> r.body]
              /\ UNCHANGED <<backend, sdkReady, now, issuedKeys, jar>>
              /\ UNCHANGED <<clientVars, inflight, hookVars>>

\* POST /api/phone-auth/complete.  The Go server registers no such route.
Complete ==
    /\ last = Idle
    /\ \E session_key \in SessionKeys \cup {Null}, agg_code \in {"agg-1", Null},
          cookieHeader \in CookieHeaders(jar),
          sdk \in {NotCalled, SdkDone} \cup {[ok |-> FALSE, err |-> e] : e \in SdkFailures} :
           LET r == CASE backend = "node" ->
                           node_complete(session_key, agg_code, cookieHeader, sdk)
                      [] backend = "java" ->
                           PhoneAuthController_complete(sdkReady, session_key, agg_code,
                                                        cookieHeader, sdk)
               threw == r.sent # NotSent /\ ~sdk.ok
               caught == IF threw THEN CatchBody(backend, "complete", sdk.err, "production")
                         ELSE NoErrorBody
           IN /\ backend # "go"
              /\ (r.sent # NotSent <=> sdk # NotCalled)
              /\ last' = [op |-> "complete", session_key |-> session_key,
                           agg_code |-> agg_code, cookieHeader |-> cookieHeader,
                           status |-> r.status, code |-> r.code, sent |-> r.sent,
                           routedBy |-> {b \in Backends : "complete" \in Routes(b)},
                           failure |-> IF threw THEN sdk.err.kind ELSE "none",
                           message |-> caught.message, details |-> caught.details]
              /\ UNCHANGED <<backend, sdkReady, now, issuedKeys, store, jar>>
              /\ UNCHANGED <<clientVars, inflight, hookVars>>

\* POST /api/phone-auth/process
Process ==
    /\ last = Idle
    /\ \E sdk \in {NotCalled, ProcessDone}
                  \cup {[ok |-> FALSE, err |-> e] :
                          e \in {x \in SdkFailures : x.kind = "Exception" => x.message # Null}} :
         \E use_case \in {"VerifyPhoneNumber", "Bogus", Null},
            session \in SessionKeys \cup {Null}, credential \in {"credential", Null},
            bodyFeCode \in {BodySecret, Null}, cookieHeader \in CookieHeaders(jar),
            environment \in IF backend = "java" /\ ~sdk.ok THEN Environments
                            ELSE {"production"} :
           LET r == ProcessHandler(backend, sdkReady, use_case, session, credential,
                                   bodyFeCode, cookieHeader, sdk)
               plain == ProcessHandler(backend, sdkReady, use_case, session, credential,
                                       Null, cookieHeader, sdk)
               threw == r.sent # NotSent /\ ~sdk.ok
               caught == IF threw THEN CatchBody(backend, "process", sdk.err, environment)
                         ELSE NoErrorBody
           IN /\ (r.sent # NotSent <=> sdk # NotCalled)
              /\ (~(backend = "java" /\ threw /\ sdk.err.kind = "Exception") =>
                      environment = "production")
              /\ last' = [op |-> "process", use_case |-> use_case, session |-> session,
                           credential |-> credential, bodyFeCode |-> bodyFeCode,
                           cookieHeader |-> cookieHeader,
                           status |-> r.status, code |-> r.code, sent |-> r.sent,
                           sameWithoutBodySecret |-> (r = plain),
                           \* what each backend answers to this request when the
                           \* provider's outcome is the same
                           answers |-> IF sdk = NotCalled THEN {}
                                       ELSE {ProcessAnswer(b, use_case, session, credential,
                                                           bodyFeCode, cookieHeader, sdk) :
                                               b \in Backends},
                           failure |-> IF threw THEN sdk.err.kind ELSE "none",
                           message |-> caught.message, details |-> caught.details]
              /\ UNCHANGED <<backend, sdkReady, now, issuedKeys, store, jar>>
              /\ UNCHANGED <<clientVars, inflight, hookVars>>

\* POST /api/phone-auth/invoke (Go: any method reaches the handler).
Invoke ==
    /\ last = Idle
    /\ \E reqBody \in InvokeBodies, method \in {"GET", "POST"},
          sdk \in {NotCalled, SdkDone, [ok |-> TRUE, resp |-> [success |-> FALSE]]}
                  \cup {[ok |-> FALSE, err |-> e] : e \in SdkFailures} :
           LET r == CASE backend = "node" -> node_invoke(reqBody, sdk)
                      [] backend = "go" ->
                           phoneAuthInvokeHandler(sdkReady, method, reqBody, sdk)
                      [] backend = "java" ->
                           PhoneAuthController_invoke(sdkReady, reqBody, sdk)
           IN /\ (backend # "go" => method = "POST")
              /\ (r.called <=> sdk # NotCalled)
              /\ last' = [op |-> "invoke", method |-> method, reqBody |-> reqBody,
                           sdk |-> sdk, status |-> r.status, success |-> r.success]
              /\ UNCHANGED <<backend, sdkReady, now, issuedKeys, store, jar>>
              /\ UNCHANGED <<clientVars, inflight, hookVars>>

\* The registry and the status proxy over time, with clients that keep no
\* cookies.
NextRegistry == Tick \/ Sweep \/ Prepare \/ Status \/ Discard

SpecRegistry == Init /\ [][NextRegistry]_vars

\* The binding cookie, completion and invoke endpoints with a browser.
Next == Prepare \/ Complete \/ Process \/ Invoke \/ Return \/ Discard

Spec == Init /\ [][Next]_vars

\* ------------------------------------------------ the cleanup timer
\* One cleanup interval passes and the timer fires: the setInterval callback
\* of session-store.ts, the ticker loop of session_store.go, the @Scheduled
\* method of SessionStoreService.  Nothing in them throws or ends the timer.
TimerTick ==
    /\ last = Idle
    /\ now < MaxSweepTime
    /\ now' = now + CLEANUP_INTERVAL
    /\ store' = cleanupExpiredSessions(store, now')
    /\ last' = [op |-> "sweep", at |-> now', before |-> store]
    /\ UNCHANGED <<backend, sdkReady, issuedKeys, jar>>
    /\ UNCHANGED <<clientVars, inflight, hookVars>>

\* The registry with its timer running on the fixed interval.
NextSweep == TimerTick \/ Prepare \/ Status \/ Discard

SpecSweep == Init /\ [][NextSweep]_vars

\* ------------------------------------------- the registry under concurrency
\* A prepare request's storeStatusUrl call for session key k.  Requests run
\* concurrently in Go (a goroutine each) and Java (a thread each), so the
\* call may fall between the steps of a Java lookup; Go holds sessionMutex
\* for the whole of each operation and Node runs each to its end.
StoreStatusUrl ==
    \E k \in SessionKeys :
        /\ last = Idle
        /\ store' = storeStatusUrl(store, k, StatusUrlNames[1], now)
        /\ UNCHANGED <<backend, sdkReady, now, issuedKeys, jar, last, inflight>>
        /\ UNCHANGED <<clientVars, hookVars>>

\* A status request's lookup, in one step: Node getStatusUrl and Go
\* GetStoredStatusURL (under sessionMutex.RLock).
LookupAtomic ==
    \E k \in SessionKeys :
        /\ last = Idle
        /\ backend \in {"node", "go"}
        /\ store' = Lookup(backend, store, k, now).store
        /\ last' = [op |-> "lookup", key |-> k, at |-> now, before |-> store]
        /\ UNCHANGED <<backend, sdkReady, now, issuedKeys, jar, inflight>>
        /\ UNCHANGED <<clientVars, hookVars>>

\* Java: SessionEntry entry = store.get(sessionKey)
LookupGet ==
    \E k \in SessionKeys :
        /\ last = Idle
        /\ backend = "java"
        /\ inflight = NoLookup
        /\ inflight' = [pc |-> "got", key |-> k,
                        entry |-> SessionStoreService_get(store, k)]
        /\ UNCHANGED <<backend, sdkReady, now, issuedKeys, store, jar, last>>
        /\ UNCHANGED <<clientVars, hookVars>>

\* Java: the rest of getStatusUrl
LookupEnd ==
    /\ last = Idle
    /\ inflight # NoLookup
    /\ store' = SessionStoreService_afterGet(store, inflight.key, inflight.entry, now)
    /\ last' = [op |-> "lookup", key |-> inflight.key, at |-> now, before |-> store]
    /\ inflight' = NoLookup
    /\ UNCHANGED <<backend, sdkReady, now, issuedKeys, jar>>
    /\ UNCHANGED <<clientVars, hookVars>>

NextConcurrent ==
    Tick \/ Sweep \/ StoreStatusUrl \/ LookupAtomic \/ LookupGet \/ LookupEnd \/ Discard

SpecConcurrent == Init /\ [][NextConcurrent]_vars

\* ------------------------------------------------------- hook-based client
\* A string is the sequence of its characters.  Keys are the characters
\* typed into the field: the plus sign, a zero, a non-zero digit and a
\* character that is neither (a space).
Digits == {"0", "1", "2", "3", "4", "5", "6", "7", "8", "9"}
Keys == {"+", "0", "1", " "}

\* phone.replace(/[^\d+]/g, '')
replaceNonDigitPlus(phone) ==
    SelectSeq(phone, LAMBDA c : c \in Digits \cup {"+"})

\* phone.trim()
trim(phone) ==
    LET kept == {i \in 1..Len(phone) : phone[i] # " "}
    IN IF kept = {}
       THEN <<>>
       ELSE LET first == CHOOSE i \in kept : \A j \in kept : i <= j
                lastKept == CHOOSE i \in kept : \A j \in kept : j <= i
            IN SubSeq(phone, first, lastKept)

\* /^\+[1-9]\d{1,14}$/.test(s)
e164Regex_test(s) ==
    /\ Len(s) >= 3
    /\ Len(s) <= 16
    /\ s[1] = "+"
    /\ s[2] \in Digits \ {"0"}
    /\ \A i \in 3..Len(s) : s[i] \in Digits

\* validatePhoneNumber: the message, "" when the number passes.
validatePhoneNumber(phone) ==
    LET cleaned == replaceNonDigitPlus(phone)
    IN IF trim(phone) = <<>>
       THEN "Phone number is required"
       ELSE IF ~(Len(cleaned) >= 1 /\ cleaned[1] = "+")
       THEN "Phone number must be in E.164 format (start with +)"
       ELSE IF Len(cleaned) < 8
       THEN "Phone number too short for E.164 format"
       ELSE IF Len(cleaned) > 16
       THEN "Phone number too long for E.164 format (max 15 digits)"
       ELSE IF ~e164Regex_test(cleaned)
       THEN "Please enter a valid E.164 format phone number"
       ELSE ""

\* The user types one more character: handlePhoneChange.  An earlier call of
\* verifyPhoneNumber is over.
handlePhoneChange ==
    \E c \in Keys :
        /\ Len(phoneInput) < MaxPhoneLen
        /\ phoneInput' = Append(phoneInput, c)
        /\ phoneError' = IF phoneError # "" THEN "" ELSE phoneError
        /\ verifyArg' = Null
        /\ UNCHANGED <<serverVars, clientVars, inflight>>

\* A click on 'Verify Phone Number' (disabled while the field is empty or an
\* error is shown): handleVerifyNumber.
handleVerifyNumber ==
    LET validationError == validatePhoneNumber(phoneInput)
    IN /\ phoneInput # <<>>
       /\ phoneError = ""
       /\ IF validationError # ""
          THEN /\ phoneError' = validationError
               /\ verifyArg' = Null
          ELSE /\ verifyArg' = phoneInput
               /\ UNCHANGED phoneError
       /\ UNCHANGED phoneInput
       /\ UNCHANGED <<serverVars, clientVars, inflight>>

InitHook == Init /\ backend = "node"

NextHook == handlePhoneChange \/ handleVerifyNumber

SpecHook == InitHook /\ [][NextHook]_vars

\* ------------------------------------------------------- client actions
\* The client alone: the backend it talks to plays no part in its steps.
InitClient == Init /\ backend = "node"

\* Click on step 1's "Execute Step".
ClickStepOne ==
    /\ ui.mounted
    /\ ~StepOneDisabled(ui)
    /\ prepareCalls < MaxPrepares
    /\ ui' = executeStepOne(ui)
    /\ prepareCalls' = prepareCalls + 1
    /\ pending' = pending \cup
           {Task(prepareCalls + 1, "executeStepOne", "preparePhoneRequest",
                 Null, FALSE, 0, 0)}
    /\ ev' = [op |-> "preparePhoneRequest", before |-> Seen(ui)]
    /\ UNCHANGED <<handles, invokeCalls>>
    /\ UNCHANGED <<serverVars, inflight, hookVars>>

\* preparePhoneRequest resolves with the response of a new session, or rejects.
PrepareSettles ==
    \E t \in pending, ok \in BOOLEAN :
        /\ ui.mounted
        /\ t.fn = "executeStepOne"
        /\ ui' = executeStepOne_settled(ui, ok, SessionKeyNames[t.id])
        /\ pending' = pending \ {t}
        /\ ev' = [op |-> "prepare settled"]
        /\ UNCHANGED <<handles, prepareCalls, invokeCalls>>
        /\ UNCHANGED <<serverVars, inflight, hookVars>>

\* Click on step 2's "Execute Step" (isRetry = FALSE) or on "Retry Step".
ClickStepTwo ==
    \E isRetry \in BOOLEAN :
        LET r == executeStepTwo(ui, isRetry)
        IN /\ ui.mounted
           /\ IF isRetry THEN RetryStepShown(ui)
                         ELSE ~ui.isPolling /\ ~StepTwoDisabled(ui)
           /\ invokeCalls < MaxInvokes
           /\ ui' = r.ui
           /\ invokeCalls' = IF r.called THEN invokeCalls + 1 ELSE invokeCalls
           /\ pending' = IF r.called
                         THEN pending \cup
                              {Task(invokeCalls + 1, "executeStepTwo",
                                    "invokeSecurePrompt", r.with, isRetry,
                                    ui.extendedResponse, 0)}
                         ELSE pending
           /\ ev' = [op |-> "executeStepTwo", before |-> Seen(ui), isRetry |-> isRetry,
                     called |-> r.called, with |-> r.with,
                     prepareCallsBefore |-> prepareCalls]
           /\ UNCHANGED <<handles, prepareCalls>>
           /\ UNCHANGED <<serverVars, inflight, hookVars>>

\* invokeSecurePrompt settles: it rejects, or resolves with an extended result
\* of the link/desktop kind (polling) or of the ts43 kind.
InvokeSettles ==
    \E t \in pending, outcome \in {"link", "ts43", "rejected"} :
        LET h == Len(handles) + 1
        IN /\ ui.mounted
           /\ t.fn = "executeStepTwo" /\ t.at = "invokeSecurePrompt"
           /\ IF outcome = "rejected"
              THEN /\ ui' = executeStepTwo_catch(ui)
                   /\ pending' = pending \ {t}
                   /\ handles' = handles
              ELSE /\ ui' = executeStepTwo_invoked(ui, outcome, h)
                   /\ pending' = (pending \ {t}) \cup
                                 {[t EXCEPT !.at = "credential", !.handle = h]}
                   /\ handles' = Append(handles,
                          [session |-> t.stepOneResp, strategy |-> outcome,
                           torn |-> FALSE, wait |-> "pending"])
           /\ ev' = [op |-> "invoke settled"]
           /\ UNCHANGED <<prepareCalls, invokeCalls>>
           /\ UNCHANGED <<serverVars, inflight, hookVars>>

\* The credential promise of a handle settles.  A handle that was torn down
\* yields no credential any more: its promise rejects or stays pending.
CredentialSettles ==
    \E t \in pending, outcome \in {"resolved", "rejected"} :
        /\ ui.mounted
        /\ t.fn = "executeStepTwo" /\ t.at = "credential"
        /\ handles[t.handle].wait = "pending"
        /\ (handles[t.handle].torn => outcome = "rejected")
        /\ ui' = IF outcome = "resolved"
                 THEN executeStepTwo_credential(ui, t, handles[t.handle].strategy,
                                                CredentialFor(t.stepOneResp))
                 ELSE executeStepTwo_catch(ui)
        /\ handles' = [handles EXCEPT ![t.handle] = Settled]
        /\ pending' = pending \ {t}
        /\ ev' = [op |-> "credential settled", superseded |-> t.superseded,
                  outcome |-> outcome, changed |-> (ui' # ui)]
        /\ UNCHANGED <<prepareCalls, invokeCalls>>
        /\ UNCHANGED <<serverVars, inflight, hookVars>>

\* Click on "Cancel", rendered while isPolling.
ClickCancel ==
    /\ ui.mounted
    /\ ui.isPolling
    /\ handles' = TearDown(handles, ui.extendedResponse)
    /\ ui' = cancelStepTwo(ui)
    /\ pending' = Supersede(pending)
    /\ ev' = [op |-> "cancel", before |-> Seen(ui)]
    /\ UNCHANGED <<prepareCalls, invokeCalls>>
    /\ UNCHANGED <<serverVars, inflight, hookVars>>

\* Click on step 3's "Execute Step".
ClickStepThree ==
    LET r == executeStepThree(ui)
    IN /\ ui.mounted
       /\ ~StepThreeDisabled(ui)
       /\ ui' = r.ui
       /\ pending' = IF r.called
                     THEN pending \cup
                          {Task(0, "executeStepThree", "process", Null, FALSE, 0, 0)}
                     ELSE pending
       /\ ev' = [op |-> "executeStepThree", before |-> Seen(ui), called |-> r.called,
                 credential |-> r.credential, session |-> r.session]
       /\ UNCHANGED <<handles, prepareCalls, invokeCalls>>
       /\ UNCHANGED <<serverVars, inflight, hookVars>>

\* verifyPhoneNumber / getPhoneNumber settles.
ProcessSettles ==
    \E t \in pending, ok \in BOOLEAN :
        /\ ui.mounted
        /\ t.fn = "executeStepThree"
        /\ ui' = executeStepThree_settled(ui, ok)
        /\ pending' = pending \ {t}
        /\ ev' = [op |-> "process settled"]
        /\ UNCHANGED <<handles, prepareCalls, invokeCalls>>
        /\ UNCHANGED <<serverVars, inflight, hookVars>>

\* resetGranularFlow: by the "Reset Flow" button, or by selectFlow when the
\* user picks a flow type.
ResetFlow ==
    \E by \in {"Reset Flow", "selectFlow"} :
        /\ ui.mounted
        /\ (by = "Reset Flow" => ResetFlowShown(ui))
        /\ handles' = TearDown(handles, ui.extendedResponse)
        /\ ui' = resetGranularFlow(ui)
        /\ pending' = Supersede(pending)
        /\ ev' = [op |-> "reset", by |-> by]
        /\ UNCHANGED <<prepareCalls, invokeCalls>>
        /\ UNCHANGED <<serverVars, inflight, hookVars>>

\* resetApp: click on the header brand.
ResetApp ==
    /\ ui.mounted
    /\ handles' = TearDown(handles, ui.extendedResponse)
    /\ ui' = resetApp(ui)
    /\ pending' = Supersede(pending)
    /\ ev' = [op |-> "reset", by |-> "resetApp"]
    /\ UNCHANGED <<prepareCalls, invokeCalls>>
    /\ UNCHANGED <<serverVars, inflight, hookVars>>

\* The component unmounts.  The mount effect returns no cleanup function.
Unmount ==
    /\ ui.mounted
    /\ ui' = [ui EXCEPT !.mounted = FALSE]
    /\ ev' = [op |-> "unmount"]
    /\ UNCHANGED <<pending, handles, prepareCalls, invokeCalls>>
    /\ UNCHANGED <<serverVars, inflight, hookVars>>

NextClient ==
    \/ ClickStepOne \/ PrepareSettles
    \/ ClickStepTwo \/ InvokeSettles \/ CredentialSettles \/ ClickCancel
    \/ ClickStepThree \/ ProcessSettles
    \/ ResetFlow \/ ResetApp \/ Unmount

SpecClient == InitClient /\ [][NextClient]_vars

\* ================================================================ claims

\* The request handled last is a complete request with both body fields.
CompleteWithFields ==
    last.op = "complete" /\ last.session_key # Null /\ last.agg_code # Null

\* The request carries the binding cookie named for its session key.
HasOwnCookie ==
    /\ last.cookieHeader.present
    /\ getBindingCookieName(last.session_key) \in DOMAIN last.cookieHeader.cookies

\* C1: a complete request with session_key and agg_code but without the
\* binding cookie of that session is answered 403 MISSING_BINDING_COOKIE and
\* the provider's complete is not called.
C1_MissingCookieIs403 ==
    (CompleteWithFields /\ ~HasOwnCookie)
        => /\ last.status = 403
           /\ last.code = "MISSING_BINDING_COOKIE"
           /\ last.sent = NotSent

\* C1 witness: such a request arrives carrying only another session's cookie.
C1_Witness ==
    /\ CompleteWithFields
    /\ ~HasOwnCookie
    /\ last.cookieHeader.present
    /\ DOMAIN last.cookieHeader.cookies # {}
    /\ last.status = 403

\* The secret the prepare call of session key k set as a cookie: the i-th
\* session gets the i-th secret, lower-cased.
SecretSetFor(k) ==
    LowerNames[CHOOSE i \in 1..Len(SessionKeyNames) : SessionKeyNames[i] = k]

\* C2: complete answers 204 only if the request carried the binding cookie
\* named for the body's session_key and the value forwarded to the provider
\* is the secret that prepare set as a cookie for that session.
C2_SuccessNeedsOwnCookie ==
    (last.op = "complete" /\ last.status = 204)
        => /\ CompleteWithFields
           /\ HasOwnCookie
           /\ last.sent # NotSent
           /\ last.sent.session_key = last.session_key
           /\ last.sent.fe_code =
                  last.cookieHeader.cookies[getBindingCookieName(last.session_key)]
           /\ last.sent.fe_code = SecretSetFor(last.session_key)

\* C2 witness: a 204 for a request that carries the cookies of two sessions.
C2_Witness ==
    /\ last.op = "complete"
    /\ last.status = 204
    /\ last.cookieHeader.present
    /\ Cardinality(DOMAIN last.cookieHeader.cookies) >= 2

\* C3: the body a prepare call returns to the client never holds the raw
\* binding secret, whatever the provider response (with or without session).
C3_BodyNeverHoldsSecret ==
    (last.op = "prepare" /\ last.status = 200 /\ last.resp.feCode # Null)
        => last.body.feCode = Null

\* The status request handled last reached the registry lookup.
LookedUp ==
    last.op = "status" /\ last.method = "GET" /\ last.sessionId # ""

\* The entry the registry held for the polled session when the poll arrived.
HadEntry == last.sessionId \in DOMAIN last.before
EntryBefore == last.before[last.sessionId]

\* C4: a lookup at time t of a key stored at t0 returns the stored URL when
\* t - t0 < TTL and returns absent when t - t0 >= TTL, also at exactly
\* t0 + TTL.
C4_LookupHonoursTtl ==
    (LookedUp /\ HadEntry)
        => LET t0 == EntryBefore.expiresAt - TTL_MINUTES
           IN /\ (last.at - t0 < TTL_MINUTES => last.found = EntryBefore.statusUrl)
              /\ (last.at - t0 >= TTL_MINUTES => last.found = Null)

\* The polled session had a live entry: stored and not yet expired.
LiveBefore == HadEntry /\ EntryBefore.expiresAt > last.at

\* C5: a poll for a session without a live registry entry (never stored, or
\* expired) is answered 404 SESSION_NOT_FOUND and makes no outbound request.
C5_NoLiveEntryIs404 ==
    (LookedUp /\ ~LiveBefore)
        => /\ last.status = 404
           /\ last.code = "SESSION_NOT_FOUND"
           /\ ~last.fetched

\* C6: a poll for a live session leaves its registry entry as it was, status
\* URL and expiresAt, whatever the upstream answers.
C6_PollKeepsLiveEntry ==
    (LookedUp /\ LiveBefore)
        => /\ last.sessionId \in DOMAIN store
           /\ store[last.sessionId] = EntryBefore

\* C6 witness: a live session is polled some minutes after it was stored and
\* the upstream answers with an error.
C6_Witness ==
    /\ LookedUp
    /\ LiveBefore
    /\ last.at > EntryBefore.expiresAt - TTL_MINUTES
    /\ last.fetched
    /\ last.upstream.status = 502

\* C7: when the stored status URL answers 4xx or 5xx the proxy answers with
\* the same status code and the upstream body, JSON or not.
C7_UpstreamFailureRelayed ==
    (last.op = "status" /\ last.fetched /\ last.upstream.reachable
        /\ last.upstream.status >= 400)
        => /\ last.status = last.upstream.status
           /\ last.body = last.upstream.body

\* The answer is the upstream's status and body.
Relayed ==
    /\ last.fetched
    /\ last.upstream.reachable
    /\ last.status = last.upstream.status
    /\ last.body = last.upstream.body

\* C8: a status request that cannot be made, fails at network level or gets
\* a non-JSON body is answered 500 STATUS_CHECK_FAILED, so every answer is
\* relayed upstream content, 404 SESSION_NOT_FOUND or 500 STATUS_CHECK_FAILED.
C8_FailureIsStatusCheckFailed ==
    LookedUp
        => \/ Relayed
           \/ last.status = 404 /\ last.code = "SESSION_NOT_FOUND"
           \/ last.status = 500 /\ last.code = "STATUS_CHECK_FAILED"

\* C9: a sweep at time t removes exactly the entries with expiresAt <= t and
\* leaves every other entry as it was.
C9_SweepRemovesExactlyExpired ==
    last.op = "sweep"
        => /\ DOMAIN store \subseteq DOMAIN last.before
           /\ \A k \in DOMAIN last.before :
                 IF last.before[k].expiresAt <= last.at
                 THEN k \notin DOMAIN store
                 ELSE k \in DOMAIN store /\ store[k] = last.before[k]

\* C10: the invoke endpoint answers every POST with a non-error status and
\* a body that has a success field.
C10_InvokeNeverFails ==
    (last.op = "invoke" /\ last.method = "POST")
        => (last.status < 400 /\ last.success \in BOOLEAN)

\* C11: in the step-by-step flow invokeSecurePrompt is called only with the
\* prepare response that is stored, and the process call is made only when a
\* prepare response and a credential are both stored, with those two values.
C11_PhasesInOrder ==
    /\ (ev.op = "executeStepTwo" /\ ev.called)
           => (ev.before.stepOneResp # Null /\ ev.with = ev.before.stepOneResp)
    /\ (ev.op = "executeStepThree" /\ ev.called)
           => /\ ev.before.stepOneResp # Null
              /\ ev.before.stepTwoResp # Null
              /\ ev.session = ev.before.stepOneResp
              /\ ev.credential = ev.before.stepTwoResp

\* C11 witness: the process call is made for the second prepare response of
\* the run, after a reset.
C11_Witness ==
    /\ ev.op = "executeStepThree"
    /\ ev.called
    /\ ev.session = SessionKeyNames[2]
    /\ ev.credential = CredentialFor(SessionKeyNames[2])

\* C12: once the user has cancelled step 2, reset the flow or switched flow
\* while a credential wait was pending, the settling of that wait changes no
\* client state, and no process call joins a credential of one prepare
\* response with the session of another.
C12_SupersededWaitIsIgnored ==
    /\ (ev.op = "credential settled" /\ ev.superseded) => ~ev.changed
    /\ (ev.op = "executeStepThree" /\ ev.called)
           => ev.credential = CredentialFor(ev.session)

\* C13: at most one credential wait / poll loop started by the client is
\* running at any time.
C13_OneActiveWait == Cardinality(ActiveWaits) <= 1

\* C14: a poll loop that is still running belongs to the attempt the mounted
\* component is polling for; after every way out of the polling phase
\* (credential, error, cancel, reset, unmount) it has settled or was torn down.
C14_PollStoppedOnExit ==
    \A h \in ActiveWaits :
        handles[h].strategy = "link"
            => (ui.mounted /\ ui.isPolling /\ ui.extendedResponse = h)

\* C15: a cancel during polling tears the poll down and sets no error state
\* for step 2.
C15_CancelIsNotFailure ==
    ev.op = "cancel"
        => /\ (ev.before.extendedResponse # 0
                  => handles[ev.before.extendedResponse].torn)
           /\ ui.stepTwoError = Null

\* C16: a retry of the credential step uses the stored prepare response and
\* makes no prepare call, and a prepare call is made only when no prepare
\* response is stored.
C16_RetryReusesSession ==
    /\ (ev.op = "executeStepTwo" /\ ev.isRetry /\ ev.called)
           => /\ ev.with = ev.before.stepOneResp
              /\ ui.stepOneResp = ev.before.stepOneResp
              /\ prepareCalls = ev.prepareCallsBefore
    /\ ev.op = "preparePhoneRequest" => ev.before.stepOneResp = Null

\* C16 witness: Retry Step after a cancel calls invokeSecurePrompt again with
\* the prepare response of the cancelled attempt.
C16_Witness ==
    /\ ev.op = "executeStepTwo"
    /\ ev.isRetry
    /\ ev.called
    /\ ev.before.stepTwoError = CancelledMessage
    /\ ev.with = SessionKeyNames[1]
    /\ prepareCalls = 1

\* The request handled last handed a request to the provider's process or
\* complete call.
ProviderCallMade ==
    last.op \in {"process", "complete"} /\ last.sent # NotSent

\* C17: the requests the backend hands to the provider's process and
\* complete calls carry no raw binding secret.
C17_ProviderCallsCarryNoSecret ==
    ProviderCallMade => last.sent.fe_code = Null

\* The value of the binding cookie a process request carries for the session
\* of its body, Null when it carries none.
OwnCookieValue ==
    IF /\ last.session # Null
       /\ last.cookieHeader.present
       /\ getBindingCookieName(last.session) \in DOMAIN last.cookieHeader.cookies
    THEN last.cookieHeader.cookies[getBindingCookieName(last.session)]
    ELSE Null

\* C18: the secret the process endpoint forwards is the value of the binding
\* cookie of the request's session, nothing when there is none, and the
\* answer and the forwarded request are the same with and without a secret in
\* the request body.
C18_ProcessSecretFromCookieOnly ==
    last.op = "process"
        => /\ last.sameWithoutBodySecret
           /\ (last.sent # NotSent
                  => /\ last.sent.fe_code = OwnCookieValue
                     /\ last.sent.fe_code # BodySecret)

\* C18 witness: a process request with a secret in its body and the binding
\* cookie of its session reaches the provider with the cookie's value.
C18_Witness ==
    /\ last.op = "process"
    /\ last.bodyFeCode = BodySecret
    /\ last.sent # NotSent
    /\ OwnCookieValue # Null
    /\ last.sent.fe_code = OwnCookieValue

\* Every binding cookie the browser holds has the secret of its own session.
JarHoldsOwnSecrets ==
    \A k \in SessionKeys :
        getBindingCookieName(k) \in DOMAIN jar
            => jar[getBindingCookieName(k)] = SecretSetFor(k)

\* A step leaves every cookie the browser holds as it was.
JarKept ==
    \A n \in DOMAIN jar : n \in DOMAIN jar' /\ jar'[n] = jar[n]

\* A process or complete request that carries every cookie of the browser
\* and reads one of them hands the secret of its own session to the provider.
ReadsOwnSecret ==
    (/\ ProviderCallMade
     /\ last.cookieHeader.present
     /\ DOMAIN last.cookieHeader.cookies = DOMAIN jar
     /\ last.sent.fe_code # Null)
        => LET k == IF last.op = "process" THEN last.session ELSE last.session_key
           IN last.sent.fe_code = SecretSetFor(k)

\* C19: with several sessions prepared from one browser each secret stays
\* under its own cookie: no prepare overwrites or removes the cookie of
\* another session, and process / complete for a session read its secret.
C19_CookiesDoNotCollide ==
    [](JarHoldsOwnSecrets /\ ReadsOwnSecret) /\ [][JarKept]_vars

\* C19 witness: with the cookies of two sessions in the browser a process
\* request for the first session forwards the first session's secret.
C19_Witness ==
    /\ Cardinality(DOMAIN jar) >= 2
    /\ last.op = "process"
    /\ last.session = SessionKeyNames[1]
    /\ last.sent # NotSent
    /\ last.cookieHeader.present
    /\ DOMAIN last.cookieHeader.cookies = DOMAIN jar
    /\ last.sent.fe_code = LowerNames[1]

\* C20: the Secure attribute of the binding cookie prepare sets is true
\* exactly when the request came over https, by its scheme or by its
\* forwarded-proto header.
C20_SecureFollowsScheme ==
    (last.op = "prepare" /\ last.cookie # NoCookie)
        => (last.cookie[3] <=>
               (last.scheme = "https" \/ last.forwardedProto = "https"))

\* C21: when prepare, process or complete fails with an error that is not a
\* structured provider error, the response carries the fixed generic message
\* and none of the text of the exception.
FailedUnexpectedly ==
    /\ last.op \in {"prepare", "process", "complete"}
    /\ last.failure = "Exception"

C21_UnexpectedErrorIsGeneric ==
    FailedUnexpectedly => last.message = GenericMessage /\ last.details = Null

\* C22: the three backends expose the same routes and, for the same request
\* and the same provider outcome, answer with the same HTTP status and the
\* same error code.
C22_BackendsAnswerAlike ==
    /\ last.op = "complete" => last.routedBy = Backends
    /\ (last.op = "process" /\ last.sent # NotSent) => Cardinality(last.answers) = 1

\* C25: registry operations are atomic with respect to each other: a fresh
\* entry put for key k while a lookup or a sweep that saw an older, expired
\* entry for k is under way is not lost, so when the lookup or the sweep has
\* finished k still maps to the fresh entry.
FreshBefore(k) == k \in DOMAIN last.before /\ last.before[k].expiresAt > last.at

C25_FreshPutNotLost ==
    last.op \in {"lookup", "sweep"}
        => \A k \in SessionKeys :
              FreshBefore(k) => k \in DOMAIN store /\ store[k] = last.before[k]

\* C26: in every backend, a lookup of a key whose entry has expired (its
\* expiresAt lies before the time of the lookup) removes that entry, so the
\* key is no longer in the store right after the lookup.
ExpiredBefore == HadEntry /\ EntryBefore.expiresAt < last.at

C26_LookupEvictsExpired ==
    (LookedUp /\ ExpiredBefore) => last.sessionId \notin DOMAIN store

\* C27: every registry entry is removed after it expires even if it is never
\* read again: the sweep runs on its fixed interval independently of reads,
\* and no expired entry survives more than two sweep intervals.
C27_ExpiredGoneWithinTwoSweeps ==
    \A k \in DOMAIN store : now <= store[k].expiresAt + 2 * CLEANUP_INTERVAL

\* The timer has just removed an expired entry.
C27_Witness ==
    /\ last.op = "sweep"
    /\ \E k \in DOMAIN last.before :
          /\ last.before[k].expiresAt < last.at
          /\ k \notin DOMAIN store

\* C28: a registry entry exists for key k only if a successful prepare
\* returned session key k together with a status URL: a prepare that is
\* rejected, fails at the provider or fails unexpectedly adds or changes no
\* registry entry and sets no binding cookie, and one that yields no status
\* URL adds or changes no registry entry.
ReturnedKeyAndUrl ==
    /\ last.resp # NoBody
    /\ last.resp.session # Null
    /\ last.resp.statusUrl # Null

C28_EntryOnlyFromSuccessfulPrepare ==
    last.op = "prepare"
        => /\ \A k \in DOMAIN store :
                 \/ k \in DOMAIN last.before /\ store[k] = last.before[k]
                 \/ ReturnedKeyAndUrl /\ k = last.resp.session
           /\ last.resp = NoBody => store = last.before /\ last.cookie = NoCookie

\* C29: prepare applies the hardcoded default PLMN only when the caller
\* supplies neither a phone number nor a PLMN: a PLMN supplied by the caller
\* is passed on unchanged, a request that supplies a phone number gets no
\* default PLMN, and every backend applies the same default value.
C29_DefaultPlmnOnlyWhenNeither ==
    (last.op = "prepare" /\ last.called)
        => /\ last.plmn # Null => last.sentPlmn = last.plmn
           /\ (last.plmn = Null /\ last.phoneNumber # Null) => last.sentPlmn = Null
           /\ (last.plmn = Null /\ last.sentPlmn # Null) => last.sentPlmn = DEFAULT_PLMN

\* C30: in the hook-based client verifyPhoneNumber is only ever called with a
\* string that is itself in E.164 format (a plus sign, a non-zero digit, then
\* 1 to 14 further digits and no other character); any other input is
\* rejected by validation and never sent.
C30_OnlyE164IsSent ==
    verifyArg # Null => e164Regex_test(verifyArg)

====
